---- MODULE Spec2Model ----
(***************************************************************************)
(* A state-machine model of mne/preprocessing/maxwell.py: the Maxwell      *)
(* filter (maxwell_filter), the SSS basis assembly (_sss_basis) and the    *)
(* helpers they call.                                                      *)
(*                                                                         *)
(* Numbers.  Lengths in metres are held as integers in units of 1e-4 m,    *)
(* so the millimetre-to-metre conversion of line 85 is a real conversion   *)
(* (x mm -> 10*x units).  Angles are held exactly, in units of pi/4, for   *)
(* the directions the modelled geometry produces; an angle is a record     *)
(* [nan, q] because arccos(0/0) is NaN in IEEE arithmetic.  The values of  *)
(* the spherical-harmonic gradients are not computed: a matrix entry is a  *)
(* record that says which (side, degree, order) pair wrote it, which       *)
(* integration points were summed into it, whether it is NaN, and by what  *)
(* factor it was scaled.  Sample values are symbolic in the same way.      *)
(***************************************************************************)
EXTENDS Integers, Sequences, FiniteSets, TLC

\* ------------------------------------------------------------- bounds
MaxChannels == 8
MaxOrder == 2
MaxCoils == 11
MaxCalls == 2
NSamples == 1
NSensProj == 6

\* ------------------------------------------------- program constants
\* maxwell.py:82 and :137, coil_scale[...] = 100.
MagScale == 100
\* maxwell.py:82 and :137, coil['coil_class'] == 1.0
MagCoilClass == 1
\* maxwell.py:85, origin / 1000.
MmPerM == 1000

VARIABLES
    raw,      \* the container passed to maxwell_filter (mutable, shared with the caller)
    raw0,     \* the same container as it was when the call started
    args,     \* [origin, int_order, ext_order] of the call
    pc,       \* position in maxwell_filter / _sss_basis
    err,      \* the exception that ended the call, or NoError
    mf,       \* locals of maxwell_filter
    sb,       \* locals of _sss_basis
    raw_sss,  \* <<>> or <<the returned container>>
    ncalls,   \* number of calls started so far
    calls,    \* [args, nmeg] of the successful calls, most recent first
    hist0     \* proc_history of the very first input (<<>> when it had none)

vars == <<raw, raw0, args, pc, err, mf, sb, raw_sss, ncalls, calls, hist0>>

\* --------------------------------------------------------- exceptions
NoError == "none"
BadChannelsError == "RuntimeError: Maxwell filter does not yet handle bad channels."
NoMegError == "RuntimeError: Could not find any MEG channels"
TooFewSensorsError == "ValueError: Number of requested bases exceeds number of sensors"
DegreeError == "ValueError: Absolute value of expansion coefficient must be <= degree"
AzimuthError == "ValueError: Azimuth coords must lie in [-2*pi, 2*pi]"
PolarError == "ValueError: Polar coords must lie in [0, pi]"
IndexError == "IndexError: index out of range"
NonFiniteError == "ValueError: array must not contain infs or NaNs"

DomainErrors == {DegreeError, AzimuthError, PolarError}
DocumentedErrors == {BadChannelsError, NoMegError, TooFewSensorsError} \cup DomainErrors

\* ------------------------------------------------------ python helpers
\* range(a, b)
Range(a, b) == [i \in 1..(IF b > a THEN b - a ELSE 0) |-> a + i - 1]

\* seq.index(x): the first 0-based position of x
IndexOf(seq, x) ==
    CHOOSE i \in 0..(Len(seq) - 1) :
        seq[i + 1] = x /\ \A j \in 0..(i - 1) : seq[j + 1] # x

\* a valid 0-based list index
InRange(i, seq) == i >= 0 /\ i < Len(seq)

RECURSIVE SumSeq(_)
SumSeq(s) == IF s = <<>> THEN 0 ELSE Head(s) + SumSeq(Tail(s))

\* np.insert(np.cumsum(v), obj=0, values=0)
CumSum0(v) == [i \in 1..(Len(v) + 1) |-> SumSeq(SubSeq(v, 1, i - 1))]

RECURSIVE Concat(_)
Concat(ss) == IF ss = <<>> THEN <<>> ELSE Head(ss) \o Concat(Tail(ss))

\* --------------------------------------------------- channels and coils
MegKinds == {"mag", "grad"}
ChannelKinds == MegKinds \cup {"eeg"}

\* names(info): info['ch_names']
ch_names(chs) == [i \in 1..Len(chs) |-> chs[i].name]

\* The coil description the geometry provider gives for a MEG channel:
\* channel number p has its integration points on the line y = 0, z = 40 mm,
\* at x = 10 p + j mm (j = 1 for a magnetometer, j = 1, 2 for a gradiometer).
CoilPoints(ch) ==
    [j \in 1..(IF ch.kind = "mag" THEN 1 ELSE 2) |->
        <<(10 * ch.name + j) * 10, 0, 400>>]

create_coil(ch) ==
    [chname |-> ch.name,
     coil_class |-> IF ch.kind = "mag" THEN 1 ELSE 3,
     rmag |-> CoilPoints(ch)]

\* pick_types(info, meg=True, eeg=False, ref_meg=False, exclude=[])
pick_types_meg(chs) ==
    SelectSeq(Range(0, Len(chs)), LAMBDA i : chs[i + 1].kind \in MegKinds)

\* sample t of channel ch after gen filter passes; div is the divisor the
\* last pass applied when it wrote the sample back
Sample(ch, t, gen, div) == [ch |-> ch, t |-> t, gen |-> gen, div |-> div]

RawOf(kinds, bads, hist) ==
    [chs |-> [p \in 1..Len(kinds) |-> [name |-> p, kind |-> kinds[p]]],
     data |-> [p \in 1..Len(kinds) |-> [t \in 1..NSamples |-> Sample(p, t, 0, 1)]],
     bads |-> bads,
     has_hist |-> hist # <<>>,
     proc_history |-> hist,
     maxshield |-> TRUE]

\* --------------------------------------------------------------- Init
MfInit ==
    [assigned |-> {}, all_coils |-> <<>>, picks |-> <<>>, coils |-> <<>>,
     data |-> <<>>, coil_scale |-> <<>>, origin |-> <<>>,
     S_in |-> <<>>, S_out |-> <<>>, S_tot |-> <<>>,
     scaled |-> <<>>, mm |-> <<>>, recon |-> <<>>]

SbInit ==
    [r_int_pts |-> <<>>, int_pts |-> <<>>, n_sens |-> 0, n_bases |-> 0,
     int_lens |-> <<>>, S_in |-> <<>>, S_out |-> <<>>, coil_scale |-> <<>>,
     cvec_sph |-> <<>>, side |-> 0, order |-> 0, deg |-> 0,
     degs |-> <<>>, ords |-> <<>>, pairs |-> <<>>]

\* The channel layouts of the inputs: n channels, the MEG channels in
\* triplets of one magnetometer and two gradiometers starting at any phase s,
\* and either no other channel (e = 0), one EEG channel at any position e, or
\* EEG channels only (e = n + 1).
KindsOf(n, s, e) ==
    [p \in 1..n |-> IF e = n + 1 \/ p = e THEN "eeg"
                    ELSE IF (p + s) % 3 = 1 THEN "mag" ELSE "grad"]

Layouts == {KindsOf(n, s, e) : n \in 1..MaxChannels, s \in 0..2, e \in 0..(MaxChannels + 1)}

Origins == {<<0, 0, 40>>, <<22, 0, 40>>}

\* a provenance record written by some other tool before the first call
ForeignRecord == [creator |-> "other"]

ArgSets == [origin : Origins, int_order : 1..MaxOrder, ext_order : 0..MaxOrder]

Init ==
    \E kinds \in Layouts, flagged \in BOOLEAN, hist \in {<<>>, <<ForeignRecord>>},
       a \in ArgSets :
        /\ raw = RawOf(kinds, IF flagged THEN <<Len(kinds)>> ELSE <<>>, hist)
        /\ raw0 = raw
        /\ args = a
        /\ pc = "start"
        /\ err = NoError
        /\ mf = MfInit
        /\ sb = SbInit
        /\ raw_sss = <<>>
        /\ ncalls = 1
        /\ calls = <<>>
        /\ hist0 = hist

\* ------------------------------------------------------ maxwell_filter
Raise(e) == pc' = "raised" /\ err' = e

\* a bug line 63 could have: only two or more flagged channels are refused
HasBadsMoreThanOne(info) == Len(info.bads) > 1

\* line 63
HasBads(info) == Len(info.bads) > 0

mf_check_bads ==
    /\ pc = "start"
    /\ IF HasBads(raw)
         THEN Raise(BadChannelsError)
         ELSE pc' = "make_coils" /\ err' = err
    /\ UNCHANGED <<raw, raw0, args, mf, sb, raw_sss, ncalls, calls, hist0>>

\* _make_coils(info, accurate=True, elekta_defs=True), lines 451-513: the coils
\* of the MEG channels, in channel order
make_coils(info) ==
    [i \in 1..Len(pick_types_meg(info.chs)) |->
        create_coil(info.chs[pick_types_meg(info.chs)[i] + 1])]

mf_make_coils ==
    /\ pc = "make_coils"
    /\ IF Len(pick_types_meg(raw.chs)) <= 0
         THEN Raise(NoMegError) /\ mf' = mf
         ELSE /\ pc' = "picks" /\ err' = err
              /\ mf' = [mf EXCEPT !.all_coils = make_coils(raw),
                                  !.assigned = @ \cup {"all_coils"}]
    /\ UNCHANGED <<raw, raw0, args, sb, raw_sss, ncalls, calls, hist0>>

\* line 72-73
picks_of(info, all_coils) ==
    [i \in 1..Len(all_coils) |-> IndexOf(ch_names(info.chs), all_coils[i].chname)]

\* line 74: coils = [all_coils[ci] for ci in picks]
coils_of(all_coils, picks) ==
    [i \in 1..Len(picks) |-> all_coils[picks[i] + 1]]

mf_picks ==
    /\ pc = "picks"
    /\ LET picks == picks_of(raw, mf.all_coils) IN
        IF \E i \in 1..Len(picks) : ~InRange(picks[i], mf.all_coils)
          THEN /\ Raise(IndexError)
               /\ mf' = [mf EXCEPT !.picks = picks, !.assigned = @ \cup {"picks"}]
          ELSE /\ pc' = "pick_channels" /\ err' = err
               /\ mf' = [mf EXCEPT !.picks = picks,
                                   !.coils = coils_of(mf.all_coils, picks),
                                   !.assigned = @ \cup {"picks", "coils"}]
    /\ UNCHANGED <<raw, raw0, args, sb, raw_sss, ncalls, calls, hist0>>

\* raw.pick_channels(names): the container itself keeps only the named channels
\* (and their data rows), in their order
pick_channels(r, names) ==
    LET keep == SelectSeq(Range(1, Len(r.chs) + 1), LAMBDA i : r.chs[i].name \in names)
    IN [r EXCEPT !.chs = [i \in 1..Len(keep) |-> r.chs[keep[i]]],
                 !.data = [i \in 1..Len(keep) |-> r.data[keep[i]]]]

mf_pick_channels ==
    /\ pc = "pick_channels"
    /\ raw' = pick_channels(raw, {mf.coils[i].chname : i \in 1..Len(mf.coils)})
    /\ pc' = "read_data"
    /\ UNCHANGED <<raw0, args, err, mf, sb, raw_sss, ncalls, calls, hist0>>

\* line 77: data, times = raw[picks, :]
mf_read_data ==
    /\ pc = "read_data"
    /\ IF \E i \in 1..Len(mf.picks) : ~InRange(mf.picks[i], raw.data)
         THEN Raise(IndexError) /\ mf' = mf
         ELSE /\ pc' = "coil_scale" /\ err' = err
              /\ mf' = [mf EXCEPT !.data = [i \in 1..Len(mf.picks) |-> raw.data[mf.picks[i] + 1]],
                                  !.assigned = @ \cup {"data"}]
    /\ UNCHANGED <<raw, raw0, args, sb, raw_sss, ncalls, calls, hist0>>

\* lines 81-82 (and 136-137): ones, with 100 where coil_class == 1.0
coil_scale_of(n, coils) ==
    [i \in 1..n |-> IF i <= Len(coils) /\ coils[i].coil_class = MagCoilClass
                      THEN MagScale ELSE 1]

mf_coil_scale ==
    /\ pc = "coil_scale"
    /\ mf' = [mf EXCEPT !.coil_scale = coil_scale_of(Len(mf.picks), mf.coils),
                        !.assigned = @ \cup {"coil_scale"}]
    /\ pc' = "origin"
    /\ UNCHANGED <<raw, raw0, args, err, sb, raw_sss, ncalls, calls, hist0>>

\* line 85: np.array(origin) / 1000., a length in metres (here in 1e-4 m)
ToMeters(v) == [k \in 1..Len(v) |-> (v[k] * 10000) \div MmPerM]

mf_origin ==
    /\ pc = "origin"
    /\ mf' = [mf EXCEPT !.origin = ToMeters(args.origin),
                        !.assigned = @ \cup {"origin"}]
    /\ pc' = "sss_enter"
    /\ UNCHANGED <<raw, raw0, args, err, sb, raw_sss, ncalls, calls, hist0>>

\* ------------------------------------------------- _cart_to_sph, 428-446
\* an angle in units of pi/4, or NaN
Angle(q) == [nan |-> FALSE, q |-> q]
NaNAngle == [nan |-> TRUE, q |-> 0]

\* np.arctan2(y, x), exact for the directions on the axes and the diagonals
ArcTan2(y, x) ==
    CASE y = 0 /\ x >= 0 -> Angle(0)
      [] y = 0 /\ x < 0 -> Angle(4)
      [] x = 0 /\ y > 0 -> Angle(2)
      [] x = 0 /\ y < 0 -> Angle(-2)
      [] x = y /\ x > 0 -> Angle(1)
      [] x = y /\ x < 0 -> Angle(-3)
      [] x = -y /\ x > 0 -> Angle(-1)
      [] x = -y /\ x < 0 -> Angle(3)

\* np.arccos(z / rad) with rad = sqrt(rad2): 0/0 is NaN and arccos(NaN) is NaN
ArcCos(z, rad2) ==
    CASE rad2 = 0 -> NaNAngle
      [] rad2 # 0 /\ z = 0 -> Angle(2)
      [] rad2 # 0 /\ z > 0 /\ z * z = rad2 -> Angle(0)
      [] rad2 # 0 /\ z < 0 /\ z * z = rad2 -> Angle(4)
      [] rad2 # 0 /\ z > 0 /\ 2 * z * z = rad2 -> Angle(1)
      [] rad2 # 0 /\ z < 0 /\ 2 * z * z = rad2 -> Angle(3)

\* one row of the result: (rad, az, pol), the radius held as its square
cart_to_sph_pt(p) ==
    LET rad2 == p[1] * p[1] + p[2] * p[2] + p[3] * p[3]
    IN [rad2 |-> rad2, az |-> ArcTan2(p[2], p[1]), pol |-> ArcCos(p[3], rad2)]

cart_to_sph(cart_pts) == [i \in 1..Len(cart_pts) |-> cart_to_sph_pt(cart_pts[i])]

\* ------------------------------------------------ _sph_harmonic, 175-218
\* comparisons with NaN are false
AngleLt(a, q) == ~a.nan /\ a.q < q
AngleGt(a, q) == ~a.nan /\ a.q > q

Abs(x) == IF x < 0 THEN -x ELSE x

\* lines 203-209: the error the checks raise, or NoError
sph_harmonic_check(degree, order, az, pol) ==
    IF Abs(order) > degree THEN DegreeError
    ELSE IF \E i \in 1..Len(az) : AngleLt(az[i], -8) \/ AngleGt(az[i], 8) THEN AzimuthError
    ELSE IF \E i \in 1..Len(pol) : AngleLt(pol[i], 0) \/ AngleGt(pol[i], 4) THEN PolarError
    ELSE NoError

\* _grad_in_components / _grad_out_components, 250-337: per integration point,
\* whether the gradient is NaN (it is when an angle it is computed from is)
grad_components(degree, order, sph) ==
    [i \in 1..Len(sph) |-> [nan |-> sph[i].pol.nan \/ sph[i].az.nan]]

\* ---------------------------------------------- get_num_moments, 366-385
get_num_moments(int_order, ext_order) ==
    int_order * int_order + 2 * int_order + ext_order * ext_order + 2 * ext_order

\* ---------------------------------------------------- _sss_basis, 104-172
\* an entry np.empty/fill(np.nan) left in place
Placeholder ==
    [ph |-> TRUE, side |-> 0, deg |-> 0, order |-> 0, nan |-> TRUE, pts |-> {},
     mult |-> 1, normed |-> FALSE]

\* lines 130-133
nan_matrix(n_rows, n_cols) == [i \in 1..n_rows |-> [j \in 1..n_cols |-> Placeholder]]

NCols(M) == IF M = <<>> THEN 0 ELSE Len(M[1])

\* _concatenate_coils(coils): all points, and the number of points per coil
concatenate_points(coils) == Concat([i \in 1..Len(coils) |-> coils[i].rmag])
concatenate_counts(coils) == [i \in 1..Len(coils) |-> Len(coils[i].rmag)]

\* a bug lines 136-137 could have: the gradiometers scaled, not the magnetometers
basis_coil_scale_swapped(coils) ==
    [i \in 1..Len(coils) |-> IF coils[i].coil_class = MagCoilClass THEN 1 ELSE MagScale]

\* lines 136-137
basis_coil_scale(coils) ==
    [i \in 1..Len(coils) |-> IF coils[i].coil_class = MagCoilClass THEN MagScale ELSE 1]

sss_enter ==
    /\ pc = "sss_enter"
    /\ sb' = [SbInit EXCEPT
                !.r_int_pts = concatenate_points(mf.coils),
                !.int_pts = concatenate_counts(mf.coils),
                !.n_sens = Len(concatenate_counts(mf.coils)),
                !.n_bases = get_num_moments(args.int_order, args.ext_order),
                !.int_lens = CumSum0(concatenate_counts(mf.coils)),
                !.S_in = nan_matrix(Len(mf.coils),
                                    (args.int_order + 1) * (args.int_order + 1) - 1),
                !.S_out = nan_matrix(Len(mf.coils),
                                     (args.ext_order + 1) * (args.ext_order + 1) - 1),
                !.coil_scale = basis_coil_scale(mf.coils)]
    /\ pc' = "sss_check"
    /\ UNCHANGED <<raw, raw0, args, err, mf, raw_sss, ncalls, calls, hist0>>

\* a bug line 139 could have: as many bases as sensors are refused too
too_few_sensors_ge(n_bases, n_sens) == n_bases >= n_sens

\* line 139
too_few_sensors(n_bases, n_sens) == n_bases > n_sens

sss_check ==
    /\ pc = "sss_check"
    /\ IF too_few_sensors(sb.n_bases, sb.n_sens)
         THEN Raise(TooFewSensorsError)
         ELSE pc' = "sss_to_sph" /\ err' = err
    /\ UNCHANGED <<raw, raw0, args, mf, sb, raw_sss, ncalls, calls, hist0>>

\* line 144: r_int_pts - origin[np.newaxis, :]
cvec_cart(r_int_pts, origin) ==
    [i \in 1..Len(r_int_pts) |-> [k \in 1..3 |-> r_int_pts[i][k] - origin[k]]]

sss_to_sph ==
    /\ pc = "sss_to_sph"
    /\ sb' = [sb EXCEPT !.cvec_sph = cart_to_sph(cvec_cart(sb.r_int_pts, mf.origin))]
    /\ pc' = "sss_side"
    /\ UNCHANGED <<raw, raw0, args, err, mf, raw_sss, ncalls, calls, hist0>>

\* a bug line 152 could have: range(order + 1), which starts at degree 0
DegRangeFromZero(order) == Range(0, order + 1)

\* lines 149-152: the next (spc, g_func, order) of the zip, and the degree
\* range, evaluated once from the order bound of the side
DegRange(order) == Range(1, order + 1)

sss_side ==
    /\ pc = "sss_side"
    /\ IF sb.side = 2
         THEN pc' = "sss_return" /\ sb' = sb
         ELSE /\ pc' = "sss_deg"
              /\ sb' = [sb EXCEPT
                          !.side = @ + 1,
                          !.order = IF sb.side = 0 THEN args.int_order ELSE args.ext_order,
                          !.degs = DegRange(IF sb.side = 0 THEN args.int_order
                                            ELSE args.ext_order)]
    /\ UNCHANGED <<raw, raw0, args, err, mf, raw_sss, ncalls, calls, hist0>>

\* line 153: range(-deg, deg + 1)
OrderRange(deg) == Range(-deg, deg + 1)

sss_deg ==
    /\ pc = "sss_deg"
    /\ IF sb.degs = <<>>
         THEN pc' = "sss_scale" /\ sb' = sb
         ELSE /\ pc' = "sss_col"
              /\ sb' = [sb EXCEPT !.deg = Head(sb.degs), !.degs = Tail(sb.degs),
                                  !.ords = OrderRange(Head(sb.degs))]
    /\ UNCHANGED <<raw, raw0, args, err, mf, raw_sss, ncalls, calls, hist0>>

\* line 166: the column of (deg, order)
col_index(deg, order) == deg * deg + deg + order - 1

\* a bug line 165 could have: the slice taken with its end included
entry_inclusive_end(side, deg, order, all_grads, int_lens, pt_i) ==
    LET pts == {k \in 0..(Len(all_grads) - 1) :
                    k >= int_lens[pt_i + 1] /\ k <= int_lens[pt_i + 2]}
    IN [ph |-> FALSE, side |-> side, deg |-> deg, order |-> order,
        nan |-> \E k \in pts : all_grads[k + 1].nan,
        pts |-> pts, mult |-> 1, normed |-> FALSE]

\* lines 156-166: the entry of sensor pt_i (0-based), summed over the points
\* int_lens[pt_i] .. int_lens[pt_i + 1] - 1 of all_grads
entry(side, deg, order, all_grads, int_lens, pt_i) ==
    LET pts == {k \in 0..(Len(all_grads) - 1) :
                    k >= int_lens[pt_i + 1] /\ k < int_lens[pt_i + 2]}
    IN [ph |-> FALSE, side |-> side, deg |-> deg, order |-> order,
        nan |-> \E k \in pts : all_grads[k + 1].nan,
        pts |-> pts, mult |-> 1, normed |-> FALSE]

\* spc[pt_i, c] = ... for every pt_i, with numpy's index rule for c < 0
fill_column(spc, c, side, deg, order, all_grads, int_lens) ==
    LET j == IF c < 0 THEN c + NCols(spc) + 1 ELSE c + 1
    IN [i \in 1..Len(spc) |->
          [spc[i] EXCEPT ![j] = entry(side, deg, order, all_grads, int_lens, i - 1)]]

ColumnInRange(spc, c) == c < NCols(spc) /\ c >= -NCols(spc)

Spc(s) == IF s.side = 1 THEN s.S_in ELSE s.S_out

sss_col ==
    /\ pc = "sss_col"
    /\ IF sb.ords = <<>>
         THEN pc' = "sss_deg" /\ sb' = sb /\ err' = err
         ELSE LET order == Head(sb.ords)
                  az == [i \in 1..Len(sb.cvec_sph) |-> sb.cvec_sph[i].az]
                  pol == [i \in 1..Len(sb.cvec_sph) |-> sb.cvec_sph[i].pol]
                  e == sph_harmonic_check(sb.deg, order, az, pol)
                  c == col_index(sb.deg, order)
                  grads == grad_components(sb.deg, order, sb.cvec_sph)
                  filled == fill_column(Spc(sb), c, sb.side, sb.deg, order, grads,
                                        sb.int_lens)
                  stepped == [sb EXCEPT !.order = order, !.ords = Tail(sb.ords)]
              IN IF e # NoError
                   THEN Raise(e) /\ sb' = stepped
                   ELSE IF ~ColumnInRange(Spc(sb), c)
                     THEN Raise(IndexError) /\ sb' = stepped
                     ELSE /\ pc' = "sss_col" /\ err' = err
                          /\ sb' = [stepped EXCEPT
                                      !.S_in = IF sb.side = 1 THEN filled ELSE @,
                                      !.S_out = IF sb.side = 2 THEN filled ELSE @,
                                      !.pairs = Append(@, <<sb.side, sb.deg, order, c>>)]
    /\ UNCHANGED <<raw, raw0, args, mf, raw_sss, ncalls, calls, hist0>>

\* line 169: spc *= coil_scale[:, np.newaxis]
scale_rows(spc, coil_scale) ==
    [i \in 1..Len(spc) |->
        [j \in 1..Len(spc[i]) |-> [spc[i][j] EXCEPT !.mult = @ * coil_scale[i]]]]

\* line 170: every column divided by its norm (NaN when an entry of it is)
normalize_columns(spc) ==
    [i \in 1..Len(spc) |->
        [j \in 1..Len(spc[i]) |->
            [spc[i][j] EXCEPT !.normed = TRUE,
                              !.nan = \E r \in 1..Len(spc) : spc[r][j].nan]]]

sss_scale ==
    /\ pc = "sss_scale"
    /\ LET done == scale_rows(Spc(sb), sb.coil_scale)
       IN sb' = [sb EXCEPT !.S_in = IF sb.side = 1 THEN done ELSE @,
                           !.S_out = IF sb.side = 2 THEN done ELSE @]
    /\ pc' = "sss_normalize"
    /\ UNCHANGED <<raw, raw0, args, err, mf, raw_sss, ncalls, calls, hist0>>

sss_normalize ==
    /\ pc = "sss_normalize"
    /\ LET done == normalize_columns(Spc(sb))
       IN sb' = [sb EXCEPT !.S_in = IF sb.side = 1 THEN done ELSE @,
                           !.S_out = IF sb.side = 2 THEN done ELSE @]
    /\ pc' = "sss_side"
    /\ UNCHANGED <<raw, raw0, args, err, mf, raw_sss, ncalls, calls, hist0>>

\* line 172 and line 86: S_in, S_out = _sss_basis(...)
sss_return ==
    /\ pc = "sss_return"
    /\ mf' = [mf EXCEPT !.S_in = sb.S_in, !.S_out = sb.S_out,
                        !.assigned = @ \cup {"S_in", "S_out"}]
    /\ pc' = "project"
    /\ UNCHANGED <<raw, raw0, args, err, sb, raw_sss, ncalls, calls, hist0>>

\* ------------------------------------------------ projection, lines 87-94
\* line 87: np.c_[S_in, S_out]
hstack(A, B) == [i \in 1..Len(A) |-> A[i] \o B[i]]

HasNaN(M) == \E i \in 1..Len(M) : \E j \in 1..Len(M[i]) : M[i][j].nan

\* line 92: data * coil_scale[:, np.newaxis]
scale_data(data, coil_scale) ==
    [i \in 1..Len(data) |->
        [t \in 1..Len(data[i]) |-> [v |-> data[i][t], mult |-> coil_scale[i]]]]

\* lines 90-92: the moments, one row per column of S_tot
moments(S_tot, scaled) ==
    [k \in 1..NCols(S_tot) |-> [t \in 1..Len(scaled[1]) |-> [col |-> k, t |-> t]]]

\* line 94: np.dot(S_in, mm[:S_in.shape[1], :]), one row per sensor; row i is
\* computed from row i of S_in
reconstruct(S_in, mm, scaled) ==
    [i \in 1..Len(S_in) |->
        [t \in 1..Len(scaled[1]) |->
            [row |-> i, t |-> t, nmom |-> Len(SubSeq(mm, 1, NCols(S_in))),
             gen |-> scaled[i][t].v.gen + 1]]]

\* scipy.linalg.pinv validates its argument (check_finite) before the
\* decomposition and raises on a NaN
mf_project ==
    /\ pc = "project"
    /\ LET S_tot == hstack(mf.S_in, mf.S_out)
           scaled == scale_data(mf.data, mf.coil_scale)
           mm == moments(S_tot, scaled)
       IN IF HasNaN(S_tot)
            THEN /\ Raise(NonFiniteError)
                 /\ mf' = [mf EXCEPT !.S_tot = S_tot, !.assigned = @ \cup {"S_tot"}]
            ELSE /\ pc' = "update_info" /\ err' = err
                 /\ mf' = [mf EXCEPT !.S_tot = S_tot, !.scaled = scaled, !.mm = mm,
                                     !.recon = reconstruct(mf.S_in, mm, scaled),
                                     !.assigned = @ \cup {"S_tot", "mm", "recon"}]
    /\ UNCHANGED <<raw, raw0, args, sb, raw_sss, ncalls, calls, hist0>>

\* ------------------------------------------------- _update_info, 516-530
CreatorTag == "MNE's Maxwell Filter"

\* a bug line 526 could have: append instead of insert(0, ...)
update_info_append(r, origin, int_order, ext_order, nsens, nmoments) ==
    LET info_dict == [int_order |-> int_order, ext_order |-> ext_order,
                      origin |-> origin, nsens |-> nsens, nmoments |-> nmoments,
                      creator |-> "MNE's Maxwell Filter"]
    IN [r EXCEPT !.maxshield = FALSE,
                 !.has_hist = TRUE,
                 !.proc_history = IF r.has_hist THEN @ \o <<info_dict>>
                                  ELSE <<info_dict>>]

update_info(r, origin, int_order, ext_order, nsens, nmoments) ==
    LET info_dict == [int_order |-> int_order, ext_order |-> ext_order,
                      origin |-> origin, nsens |-> nsens, nmoments |-> nmoments,
                      creator |-> CreatorTag]
    IN [r EXCEPT !.maxshield = FALSE,
                 !.has_hist = TRUE,
                 !.proc_history = IF r.has_hist THEN <<info_dict>> \o @
                                  ELSE <<info_dict>>]

\* lines 97-98: raw.copy() is a deep copy, so the value of raw
mf_update_info ==
    /\ pc = "update_info"
    /\ raw_sss' = <<update_info(raw, mf.origin, args.int_order, args.ext_order,
                                Len(mf.data), Len(mf.mm))>>
    /\ pc' = "write"
    /\ UNCHANGED <<raw, raw0, args, err, mf, sb, ncalls, calls, hist0>>

\* line 99: raw_sss._data[:, :] = recon / coil_scale[:, np.newaxis]; row i of
\* the result is recon row i, computed from the coil coils[i]
unscale(recon, coil_scale, coils) ==
    [i \in 1..Len(recon) |->
        [t \in 1..Len(recon[i]) |->
            Sample(coils[recon[i][t].row].chname, t, recon[i][t].gen, coil_scale[i])]]

mf_write ==
    /\ pc = "write"
    /\ raw_sss' = <<[raw_sss[1] EXCEPT !.data = unscale(mf.recon, mf.coil_scale, mf.coils)]>>
    /\ pc' = "return"
    /\ UNCHANGED <<raw, raw0, args, err, mf, sb, ncalls, calls, hist0>>

\* line 101
mf_return ==
    /\ pc = "return"
    /\ pc' = "done"
    /\ calls' = <<[args |-> args, nmeg |-> Len(pick_types_meg(raw0.chs))]>> \o calls
    /\ UNCHANGED <<raw, raw0, args, err, mf, sb, raw_sss, ncalls, hist0>>

\* the caller filters the returned container again
next_call ==
    /\ pc = "done"
    /\ ncalls < MaxCalls
    /\ \E a \in ArgSets : args' = a
    /\ raw' = raw_sss[1]
    /\ raw0' = raw_sss[1]
    /\ pc' = "start"
    /\ mf' = MfInit
    /\ sb' = SbInit
    /\ raw_sss' = <<>>
    /\ ncalls' = ncalls + 1
    /\ UNCHANGED <<err, calls, hist0>>

Next ==
    \/ mf_check_bads
    \/ mf_make_coils
    \/ mf_picks
    \/ mf_pick_channels
    \/ mf_read_data
    \/ mf_coil_scale
    \/ mf_origin
    \/ sss_enter
    \/ sss_check
    \/ sss_to_sph
    \/ sss_side
    \/ sss_deg
    \/ sss_col
    \/ sss_scale
    \/ sss_normalize
    \/ sss_return
    \/ mf_project
    \/ mf_update_info
    \/ mf_write
    \/ mf_return
    \/ next_call

Spec == Init /\ [][Next]_vars

\* ------------------------------------------- _sss_basis called on its own
\* n coils in the order of an Elekta triplet (magnetometer, two gradiometers)
TripletKinds(n) == [p \in 1..n |-> IF p % 3 = 1 THEN "mag" ELSE "grad"]

BasisArgSets == [origin : Origins, int_order : 0..MaxOrder, ext_order : 0..MaxOrder]

InitBasis ==
    \E n \in 1..MaxCoils, a \in BasisArgSets :
        /\ raw = RawOf(TripletKinds(n), <<>>, <<>>)
        /\ raw0 = raw
        /\ args = a
        /\ pc = "sss_enter"
        /\ err = NoError
        /\ mf = [MfInit EXCEPT !.coils = make_coils(raw),
                               !.origin = ToMeters(a.origin),
                               !.assigned = {"coils", "origin"}]
        /\ sb = SbInit
        /\ raw_sss = <<>>
        /\ ncalls = 1
        /\ calls = <<>>
        /\ hist0 = <<>>

NextBasis ==
    \/ sss_enter
    \/ sss_check
    \/ sss_to_sph
    \/ sss_side
    \/ sss_deg
    \/ sss_col
    \/ sss_scale
    \/ sss_normalize
    \/ sss_return

SpecBasis == InitBasis /\ [][NextBasis]_vars

\* ------------------------------ lines 87-94 in exact rational arithmetic
\* A rational is <<numerator, denominator>> in lowest terms, denominator > 0;
\* a matrix is a sequence of rows, as above.
RECURSIVE GCD(_, _)
GCD(a, b) == IF b = 0 THEN a ELSE GCD(b, a % b)

Rat(n, d) ==
    LET g == GCD(Abs(n), Abs(d))
        sgn == IF d < 0 THEN -1 ELSE 1
    IN <<(sgn * n) \div g, (sgn * d) \div g>>

RZero == <<0, 1>>
ROne == <<1, 1>>
RAdd(a, b) == Rat(a[1] * b[2] + b[1] * a[2], a[2] * b[2])
RSub(a, b) == Rat(a[1] * b[2] - b[1] * a[2], a[2] * b[2])
RMul(a, b) == Rat(a[1] * b[1], a[2] * b[2])
RDiv(a, b) == Rat(a[1] * b[2], a[2] * b[1])

RECURSIVE RSum(_)
RSum(s) == IF s = <<>> THEN RZero ELSE RAdd(Head(s), RSum(Tail(s)))

\* the value of a sequence expression, computed once
Eager(s) == s \o <<>>

Dot(u, v) == RSum([k \in 1..Len(u) |-> RMul(u[k], v[k])])

Column(A, j) == Eager([i \in 1..Len(A) |-> A[i][j]])

\* np.dot(A, B)
matmul(A, B) ==
    Eager([i \in 1..Len(A) |-> Eager([j \in 1..NCols(B) |-> Dot(A[i], Column(B, j))])])

\* a bug line 90 could have: the transpose in place of the pseudo-inverse
PinvAsTranspose(A, n_rows, k) == [j \in 1..k |-> Column(A, j)]

\* the Moore-Penrose pseudo-inverse of the first k columns of A (n_rows rows),
\* column by column (Greville): a column that depends on the ones before it,
\* a zero singular value, gets no direction of its own
RECURSIVE PinvCols(_, _, _)
PinvCols(A, n_rows, k) ==
    IF k = 0 THEN <<>>
    ELSE LET P == PinvCols(A, n_rows, k - 1)
             a == Column(A, k)
             d == Eager([i \in 1..(k - 1) |-> Dot(P[i], a)])
             c == Eager([r \in 1..n_rows |->
                      RSub(a[r], Dot(SubSeq(A[r], 1, k - 1), d))])
             cc == Dot(c, c)
             dd == RAdd(ROne, Dot(d, d))
             b == IF \E r \in 1..n_rows : c[r] # RZero
                    THEN Eager([r \in 1..n_rows |-> RDiv(c[r], cc)])
                    ELSE Eager([r \in 1..n_rows |->
                            RDiv(Dot(d, [i \in 1..(k - 1) |-> P[i][r]]), dd)])
         IN Eager([i \in 1..k |->
               IF i = k THEN b
               ELSE Eager([r \in 1..n_rows |-> RSub(P[i][r], RMul(d[i], b[r]))])])

\* line 90: pinv(S_tot, cond=1e-15). The singular values the cutoff drops are,
\* in exact arithmetic on these matrices, the zero ones.
pinv(A) == PinvCols(A, Len(A), NCols(A))

\* lines 87-94 on (scaled) data: [S_tot, mm, recon]
project(S_in, S_out, data) ==
    LET S_tot == hstack(S_in, S_out)
        mm == matmul(pinv(S_tot), data)
    IN [S_tot |-> S_tot, mm |-> mm,
        recon |-> matmul(S_in, SubSeq(mm, 1, NCols(S_in)))]

proj_project ==
    /\ pc = "proj"
    /\ LET r == project(mf.S_in, mf.S_out, mf.scaled)
       IN mf' = [mf EXCEPT !.S_tot = r.S_tot, !.mm = r.mm, !.recon = r.recon]
    /\ pc' = "proj_done"
    /\ UNCHANGED <<raw, raw0, args, err, sb, raw_sss, ncalls, calls, hist0>>

\* the reconstruction is projected again
proj_again ==
    /\ pc = "proj_done"
    /\ ncalls < 2
    /\ mf' = [mf EXCEPT !.scaled = mf.recon]
    /\ ncalls' = ncalls + 1
    /\ pc' = "proj"
    /\ UNCHANGED <<raw, raw0, args, err, sb, raw_sss, calls, hist0>>

\* Bases of NSensProj sensors with unit-norm columns: the unit vectors e_k and
\* the vector (3 e_1 + 4 e_3) / 5
UnitVec(n, k) ==
    [r \in 1..n |->
        IF k = 0 THEN (IF r = 1 THEN <<3, 5>> ELSE IF r = 3 THEN <<4, 5>> ELSE RZero)
        ELSE IF r = k THEN ROne ELSE RZero]

MatrixOfColumns(n, cols) ==
    Eager([r \in 1..n |-> Eager([j \in 1..Len(cols) |-> cols[j][r]])])

InitProj ==
    \E x \in 0..NSensProj, y \in 1..NSensProj, ext_order \in 0..1,
       coef \in [1..3 -> {-1, 2}] :
        LET n == NSensProj
            S_in == MatrixOfColumns(n, <<UnitVec(n, 1), UnitVec(n, 2), UnitVec(n, x)>>)
            S_out == MatrixOfColumns(n, IF ext_order = 0 THEN <<>>
                        ELSE <<UnitVec(n, y), UnitVec(n, 5), UnitVec(n, 6)>>)
            data == matmul(S_in, [j \in 1..3 |-> <<Rat(coef[j], 1)>>])
        IN /\ raw = RawOf(TripletKinds(n), <<>>, <<>>)
           /\ raw0 = raw
           /\ args = [origin |-> <<0, 0, 40>>, int_order |-> 1, ext_order |-> ext_order]
           /\ pc = "proj"
           /\ err = NoError
           /\ mf = [MfInit EXCEPT !.S_in = S_in, !.S_out = S_out,
                                  !.data = data, !.scaled = data,
                                  !.assigned = {"S_in", "S_out", "data"}]
           /\ sb = SbInit
           /\ raw_sss = <<>>
           /\ ncalls = 1
           /\ calls = <<>>
           /\ hist0 = <<>>

NextProj ==
    \/ proj_project
    \/ proj_again

SpecProj == InitProj /\ [][NextProj]_vars

\* =================================================================== claims
Sq(x) == x * x

MegNames(r) == [i \in 1..Len(pick_types_meg(r.chs)) |-> r.chs[pick_types_meg(r.chs)[i] + 1].name]

\* C1: a call on a container with a flagged channel ends with the 'bad
\* channels' RuntimeError as its first step: no coil list was asked for, no
\* channel was picked, no basis was started and nothing was returned, whatever
\* other preconditions the input violates.
C1_BadChannelsFirst ==
    (Len(raw0.bads) > 0 /\ pc # "start") =>
        /\ pc = "raised"
        /\ err = BadChannelsError
        /\ mf = MfInit
        /\ sb = SbInit
        /\ raw = raw0
        /\ raw_sss = <<>>

\* C1 witness: the error is raised for an input that also has no MEG channel
C1_Witness ==
    /\ pc = "raised"
    /\ err = BadChannelsError
    /\ pick_types_meg(raw0.chs) = <<>>

\* C2: once the check of line 139 has run, _sss_basis has raised the
\* 'insufficient sensors' ValueError exactly when int_order^2 + 2 int_order +
\* ext_order^2 + 2 ext_order exceeds the number of sensors; and when it has,
\* no matrix was returned and every entry is still the placeholder.
C2_TooFewSensorsIff ==
    pc \notin {"sss_enter", "sss_check"} =>
        /\ (err = TooFewSensorsError) <=>
               (Sq(args.int_order) + 2 * args.int_order
                  + Sq(args.ext_order) + 2 * args.ext_order > Len(mf.coils))
        /\ err = TooFewSensorsError =>
               /\ pc = "raised"
               /\ {"S_in", "S_out"} \cap mf.assigned = {}
               /\ sb.pairs = <<>>
               /\ \A i \in 1..Len(sb.S_in) : \A j \in 1..Len(sb.S_in[i]) : sb.S_in[i][j].ph
               /\ \A i \in 1..Len(sb.S_out) : \A j \in 1..Len(sb.S_out[i]) : sb.S_out[i][j].ph

\* C2 witness: as many bases as sensors, and the basis was returned
C2_Witness ==
    /\ pc = "project"
    /\ "S_in" \in mf.assigned
    /\ Sq(args.int_order) + 2 * args.int_order
         + Sq(args.ext_order) + 2 * args.ext_order = Len(mf.coils)
    /\ args.int_order > 0
    /\ args.ext_order > 0

\* C3: once the picks of lines 72-73 are computed, the coil list of line 74
\* has one coil per pick and coil i is the coil of the channel picked as i;
\* and the data row read as row i belongs to that channel.
C3_SelectionMatchesRows ==
    "picks" \in mf.assigned =>
        /\ Len(mf.coils) = Len(mf.picks)
        /\ \A i \in 1..Len(mf.coils) :
               mf.coils[i].chname = raw0.chs[mf.picks[i] + 1].name
        /\ "data" \in mf.assigned =>
               \A i \in 1..Len(mf.data) : \A t \in 1..Len(mf.data[i]) :
                   mf.data[i][t].ch = mf.coils[i].chname

\* C4: after a successful call the input container is what it was before the
\* call, and the returned container has the MEG channels of the input in
\* their order, with as many samples.
C4_InputUntouched ==
    pc = "done" =>
        /\ raw = raw0
        /\ ch_names(raw_sss[1].chs) = MegNames(raw0)
        /\ \A i \in 1..Len(raw_sss[1].data) :
               /\ Len(raw_sss[1].data[i]) = NSamples
               /\ \A t \in 1..NSamples : raw_sss[1].data[i][t].ch = raw_sss[1].chs[i].name

\* the order bound of a side
SideBound(side) == IF side = 1 THEN args.int_order ELSE args.ext_order

\* the (degree, order) pairs a side with order bound L has
PairsOfBound(L) == {<<d, o>> \in (1..L) \X (-L..L) : -d <= o /\ o <= d}

\* the pairs _sss_basis went through on a side, in order
PairsDone(side) == SelectSeq(sb.pairs, LAMBDA p : p[1] = side)

\* the loops of a side have ended
SideEnded(side) ==
    \/ sb.side > side
    \/ sb.side = side /\ pc \in {"sss_scale", "sss_normalize", "sss_side",
                                 "sss_return", "project"}

\* C5: the pairs a side goes through are pairs with 1 <= degree <= L and
\* |order| <= degree, each once, each writing the column degree^2 + degree +
\* order - 1 of 0 .. (L+1)^2 - 2, no two the same column; when the loops of
\* the side have ended they are exactly all such pairs, for the bound L the
\* call was given, and no placeholder is left in the matrix. The loops raise
\* neither the |order| > degree error nor an index error.
C5_PairsAndColumns ==
    /\ err \notin {DegreeError, IndexError}
    /\ \A k \in 1..Len(sb.pairs) :
          LET p == sb.pairs[k]
              L == SideBound(p[1])
          IN /\ 1 <= p[2] /\ p[2] <= L
             /\ -p[2] <= p[3] /\ p[3] <= p[2]
             /\ p[4] = Sq(p[2]) + p[2] + p[3] - 1
             /\ 0 <= p[4] /\ p[4] <= Sq(L + 1) - 2
    /\ \A k1, k2 \in 1..Len(sb.pairs) :
          (k1 # k2 /\ sb.pairs[k1][1] = sb.pairs[k2][1]) =>
              /\ <<sb.pairs[k1][2], sb.pairs[k1][3]>> # <<sb.pairs[k2][2], sb.pairs[k2][3]>>
              /\ sb.pairs[k1][4] # sb.pairs[k2][4]
    /\ \A side \in {1, 2} :
          SideEnded(side) =>
              LET M == IF side = 1 THEN sb.S_in ELSE sb.S_out
                  done == PairsDone(side)
              IN /\ {<<done[k][2], done[k][3]>> : k \in 1..Len(done)}
                       = PairsOfBound(SideBound(side))
                 /\ Len(done) = Sq(SideBound(side) + 1) - 1
                 /\ \A i \in 1..Len(M) :
                       /\ Len(M[i]) = Sq(SideBound(side) + 1) - 1
                       /\ \A j \in 1..Len(M[i]) :
                             /\ ~M[i][j].ph
                             /\ M[i][j].side = side
                             /\ Sq(M[i][j].deg) + M[i][j].deg + M[i][j].order - 1 = j - 1
    /\ pc = "project" => mf.S_in = sb.S_in /\ mf.S_out = sb.S_out

\* C5 witness: a basis with order bounds 2 and 1 was returned
C5_Witness ==
    /\ pc = "project"
    /\ args.int_order = 2
    /\ args.ext_order = 1
    /\ Len(sb.pairs) = 11

\* C6: a call that ends with one of the documented errors has produced no
\* container and no provenance record, and has left the input container as
\* it was before the call.
C6_ErrorsLeaveNoTrace ==
    (pc = "raised" /\ err \in DocumentedErrors) =>
        /\ raw_sss = <<>>
        /\ raw.proc_history = raw0.proc_history
        /\ raw = raw0

\* the record a successful call with arguments a on nmeg MEG channels writes
RecordOf(c) ==
    [int_order |-> c.args.int_order,
     ext_order |-> c.args.ext_order,
     origin |-> <<10 * c.args.origin[1], 10 * c.args.origin[2], 10 * c.args.origin[3]>>,
     nsens |-> c.nmeg,
     nmoments |-> Sq(c.args.int_order) + 2 * c.args.int_order
                    + Sq(c.args.ext_order) + 2 * c.args.ext_order,
     creator |-> "MNE's Maxwell Filter"]

\* C7: the history of the container a successful call returns is the call's
\* record followed by the history of its input, unchanged; after n chained
\* calls it holds the n records, most recent first, followed by the history
\* the first input had. The record has the call's orders, the origin in
\* metres, the number of MEG rows, the moment count and the creator tag.
C7_ProvenancePrepended ==
    pc = "done" =>
        /\ raw_sss[1].has_hist
        /\ raw_sss[1].proc_history = <<RecordOf(calls[1])>> \o raw0.proc_history
        /\ raw_sss[1].proc_history = [k \in 1..Len(calls) |-> RecordOf(calls[k])] \o hist0
        /\ calls[1].nmeg = Len(mf.data)

\* C7 witness: two chained calls on a container that had a history
C7_Witness ==
    /\ pc = "done"
    /\ Len(calls) = 2
    /\ hist0 # <<>>
    /\ calls[1].args # calls[2].args

FactorOf(coil) == IF coil.coil_class = 1 THEN 100 ELSE 1

\* C10: the rows of a side are scaled by the sensor's factor before the
\* columns are normalized; in a finished call row i of S_in and S_out, data
\* row i and the divisor of returned row i all carry the factor of sensor i,
\* and a returned sample is one filter pass after the sample it replaces.
C10_ScalingConsistent ==
    /\ pc = "sss_normalize" =>
          \A i \in 1..Len(Spc(sb)) : \A j \in 1..Len(Spc(sb)[i]) :
              /\ Spc(sb)[i][j].mult = FactorOf(mf.coils[i])
              /\ ~Spc(sb)[i][j].normed
    /\ pc \in {"update_info", "write", "return", "done"} =>
          \A i \in 1..Len(mf.coils) :
              /\ \A j \in 1..Len(mf.S_in[i]) :
                    mf.S_in[i][j].mult = FactorOf(mf.coils[i]) /\ mf.S_in[i][j].normed
              /\ \A j \in 1..Len(mf.S_out[i]) :
                    mf.S_out[i][j].mult = FactorOf(mf.coils[i]) /\ mf.S_out[i][j].normed
              /\ \A t \in 1..NSamples :
                    /\ mf.scaled[i][t].v = raw0.data[mf.picks[i] + 1][t]
                    /\ mf.scaled[i][t].mult = FactorOf(mf.coils[i])
    /\ pc \in {"return", "done"} =>
          /\ Len(raw_sss[1].data) = Len(mf.coils)
          /\ \A i \in 1..Len(mf.coils) : \A t \in 1..NSamples :
                /\ raw_sss[1].data[i][t].div = FactorOf(mf.coils[i])
                /\ raw_sss[1].data[i][t].gen = raw0.data[mf.picks[i] + 1][t].gen + 1
                /\ raw_sss[1].data[i][t].ch = mf.coils[i].chname

\* C10 witness: a finished call on magnetometers and gradiometers, with an
\* external basis
C10_Witness ==
    /\ pc = "done"
    /\ \E i \in 1..Len(mf.coils) : mf.coils[i].coil_class = 1
    /\ \E i \in 1..Len(mf.coils) : mf.coils[i].coil_class # 1
    /\ NCols(mf.S_in) > 0
    /\ NCols(mf.S_out) > 0

\* the rank of a matrix, by elimination on its rows
RECURSIVE RankFrom(_, _, _)
RankFrom(rows, n_cols, j) ==
    IF j > n_cols \/ rows = <<>> THEN 0
    ELSE IF \A i \in 1..Len(rows) : rows[i][j] = RZero
      THEN RankFrom(rows, n_cols, j + 1)
      ELSE LET p == CHOOSE i \in 1..Len(rows) : rows[i][j] # RZero
               rest == SelectSeq([i \in 1..Len(rows) |-> IF i = p THEN <<>> ELSE
                          Eager([k \in 1..n_cols |->
                              RSub(rows[i][k],
                                   RMul(RDiv(rows[i][j], rows[p][j]), rows[p][k]))])],
                          LAMBDA r : r # <<>>)
           IN 1 + RankFrom(rest, n_cols, j + 1)

FullColumnRank(A) == RankFrom(A, NCols(A), 1) = NCols(A)

QuadRange(i) == {k \in 0..(Len(sb.r_int_pts) - 1) :
                    sb.int_lens[i] <= k /\ k < sb.int_lens[i + 1]}

\* the matrix a recorded pair wrote into
MatrixOfSide(side) == IF side = 1 THEN sb.S_in ELSE sb.S_out

\* C11: once _sss_basis has built int_lens, the ranges
\* [int_lens[i], int_lens[i + 1]) of the sensors start at 0, follow one
\* another in sensor order without gap or overlap and end at the number of
\* concatenated points; range i has as many indices as coil i has
\* integration points and holds exactly that coil's points; every index
\* 0 .. total_points - 1 lies in exactly one range; and in every column
\* written so far each of the n_sens rows is filled with the sum over the
\* range of its own sensor, so that each point is counted in one row only.
C11_RangesPartition ==
    (sb.int_lens # <<>>) =>
        LET n == sb.n_sens
            total == Len(sb.r_int_pts)
        IN /\ n = Len(mf.coils)
           /\ Len(sb.int_lens) = n + 1
           /\ sb.int_lens[1] = 0
           /\ sb.int_lens[n + 1] = total
           /\ \A i \in 1..n :
                 /\ sb.int_lens[i] <= sb.int_lens[i + 1]
                 /\ sb.int_lens[i + 1] - sb.int_lens[i] = Len(mf.coils[i].rmag)
                 /\ \A k \in QuadRange(i) :
                       sb.r_int_pts[k + 1] = mf.coils[i].rmag[k - sb.int_lens[i] + 1]
           /\ \A i, j \in 1..n : i # j => QuadRange(i) \cap QuadRange(j) = {}
           /\ \A k \in 0..(total - 1) :
                 Cardinality({i \in 1..n : k \in QuadRange(i)}) = 1
           /\ \A q \in 1..Len(sb.pairs) :
                 LET M == MatrixOfSide(sb.pairs[q][1])
                     c == sb.pairs[q][4] + 1
                 IN /\ Len(M) = n
                    /\ \A i \in 1..n :
                          /\ ~M[i][c].ph
                          /\ M[i][c].pts = QuadRange(i)
                    /\ \A k \in 0..(total - 1) :
                          Cardinality({i \in 1..n : k \in M[i][c].pts}) = 1

\* _sss_basis has returned both sides for magnetometers and gradiometers
\* together, so that the ranges have different lengths and there are more
\* points than sensors
C11_Witness ==
    /\ pc = "project"
    /\ err = NoError
    /\ sb.n_sens >= 6
    /\ Len(sb.r_int_pts) > sb.n_sens
    /\ \E i, j \in 1..sb.n_sens : Cardinality(QuadRange(i)) # Cardinality(QuadRange(j))
    /\ \E q \in 1..Len(sb.pairs) : sb.pairs[q][1] = 1
    /\ \E q \in 1..Len(sb.pairs) : sb.pairs[q][1] = 2

====
